---- MODULE Spec2Model ----
(***************************************************************************)
(* Model of the live dictation session hook (src/hooks/useLiveSession.ts): *)
(* the React state and refs of useLiveSession, the callbacks it registers  *)
(* on the audio processor and on the live channel, and the pure encoding   *)
(* and text helpers they call.                                             *)
(*                                                                         *)
(* Samples are integers k standing for the float k/32768.  Text is a       *)
(* sequence of one-character strings.  A session is identified by the      *)
(* number of the startSession call that created its stream, audio graph    *)
(* and channel.                                                            *)
(***************************************************************************)
EXTENDS Integers, Sequences, FiniteSets, TLC

\* ---------------------------------------------------------------- bounds
MaxStarts == 2
MaxFrames == 2
MaxMsgs == 1
FrameLen == 1
MaxRecStarts == 2
MaxRetries == 3

\* ------------------------------------------------------ program constants
SAMPLE_RATE == 16000
GapThreshold == 300

NULL == 0
Sessions == 1..MaxStarts

\* ------------------------------------------------------------ characters
LF == "\n"
BSL == "\\"
Lower == {"a", "b", "n"}
Upper == {"A", "B", "N"}
Digit == {"1"}
Punct == {".", "?", "!", ","}
White == {" ", LF}
Chars == Lower \cup Upper \cup Digit \cup Punct \cup White \cup {BSL}
NonWhite == Chars \ White

toUpperCase(c) ==
  CASE c = "a" -> "A"
    [] c = "b" -> "B"
    [] c = "n" -> "N"
    [] OTHER -> c

\* ----------------------------------------------------------- FrameCodec
\* ToInt16: the conversion an Int16Array store or DataView.setInt16 applies
\* to the number n/d: drop the fraction, then wrap modulo 2^16.
Trunc(n, d) == IF n >= 0 THEN n \div d ELSE -((-n) \div d)

ToInt16(x) == ((x + 32768) % 65536) - 32768

\* createBlob: int16[i] = data[i] * 32768
createBlob(data) == [i \in 1..Len(data) |-> ToInt16(Trunc(data[i] * 32768, 32768))]

Clamp(k) == IF k < -32768 THEN -32768 ELSE IF k > 32768 THEN 32768 ELSE k

\* the 16-bit value createWavBlob writes for one sample
WavSample(k) ==
  LET s == Clamp(k)
  IN  IF s < 0 THEN ToInt16(Trunc(s * 32768, 32768))
               ELSE ToInt16(Trunc(s * 32767, 32768))

\* createWavBlob with the data size counted in samples instead of bytes
createWavBlobSampleCount(pcmData, sampleRate) ==
  LET numChannels == 1
      bitsPerSample == 16
      bytesPerSample == bitsPerSample \div 8
      blockAlign == numChannels * bytesPerSample
      byteRate == sampleRate * blockAlign
      dataSize == Len(pcmData)
  IN  [ chunkSize     |-> 36 + dataSize,
        numChannels   |-> numChannels,
        sampleRate    |-> sampleRate,
        byteRate      |-> byteRate,
        blockAlign    |-> blockAlign,
        bitsPerSample |-> bitsPerSample,
        dataSize      |-> dataSize,
        byteLength    |-> 44 + dataSize,
        payload       |-> [i \in 1..Len(pcmData) |-> WavSample(pcmData[i])] ]

\* the header fields are written with setUint32; the sizes a session reaches
\* stay below 2^31, where that store changes nothing
createWavBlob(pcmData, sampleRate) ==
  LET numChannels == 1
      bitsPerSample == 16
      bytesPerSample == bitsPerSample \div 8
      blockAlign == numChannels * bytesPerSample
      byteRate == sampleRate * blockAlign
      dataSize == Len(pcmData) * bytesPerSample
  IN  [ chunkSize     |-> 36 + dataSize,
        numChannels   |-> numChannels,
        sampleRate    |-> sampleRate,
        byteRate      |-> byteRate,
        blockAlign    |-> blockAlign,
        bitsPerSample |-> bitsPerSample,
        dataSize      |-> dataSize,
        byteLength    |-> 44 + dataSize,
        payload       |-> [i \in 1..Len(pcmData) |-> WavSample(pcmData[i])] ]

\* the block of samples the audio processor delivers as its n-th frame
FrameData(n) == [j \in 1..FrameLen |-> n * 4096 + j]

RECURSIVE Concat(_)
Concat(chunks) ==
  IF chunks = <<>> THEN <<>> ELSE Head(chunks) \o Concat(Tail(chunks))

\* ------------------------------------------------- TranscriptReconciler
\* s.replace(/\\n/g, '\n')
RECURSIVE ReplaceEscapedNewline(_)
ReplaceEscapedNewline(s) ==
  IF Len(s) = 0 THEN <<>>
  ELSE IF Len(s) >= 2 /\ s[1] = BSL /\ s[2] = "n"
       THEN <<LF>> \o ReplaceEscapedNewline(SubSeq(s, 3, Len(s)))
       ELSE <<s[1]>> \o ReplaceEscapedNewline(Tail(s))

\* s.replace(/([A])([B])/g, '$1 $2'): matches are found left to right and
\* the scan resumes after the second character of each match.
RECURSIVE InsertSpaceBetween(_, _, _)
InsertSpaceBetween(s, A, B) ==
  IF Len(s) = 0 THEN <<>>
  ELSE IF Len(s) >= 2 /\ s[1] \in A /\ s[2] \in B
       THEN <<s[1], " ", s[2]>> \o InsertSpaceBetween(SubSeq(s, 3, Len(s)), A, B)
       ELSE <<s[1]>> \o InsertSpaceBetween(Tail(s), A, B)

formattedText(buffer) ==
  LET s1 == ReplaceEscapedNewline(buffer)
      s2 == InsertSpaceBetween(s1, Lower, Upper)
      s3 == InsertSpaceBetween(s2, Punct, NonWhite)
      s4 == InsertSpaceBetween(s3, Lower \cup Upper, Digit)
  IN  s4

\* the separator with the gap compared by >= instead of >
SeparatorAtThreshold(buffer, responseText, timeSinceLastMessage) ==
  IF /\ timeSinceLastMessage >= GapThreshold
     /\ Len(buffer) > 0
     /\ buffer[Len(buffer)] \notin White
     /\ responseText[1] \notin White
  THEN <<" ">> ELSE <<>>

\* the separator chosen at line 225
Separator(buffer, responseText, timeSinceLastMessage) ==
  IF /\ timeSinceLastMessage > GapThreshold
     /\ Len(buffer) > 0
     /\ buffer[Len(buffer)] \notin White
     /\ responseText[1] \notin White
  THEN <<" ">> ELSE <<>>

\* s.split('\n')
RECURSIVE Split(_)
Split(s) ==
  IF \A i \in 1..Len(s) : s[i] # LF THEN <<s>>
  ELSE LET i == CHOOSE i \in 1..Len(s) : s[i] = LF /\ \A j \in 1..(i-1) : s[j] # LF
       IN  <<SubSeq(s, 1, i - 1)>> \o Split(SubSeq(s, i + 1, Len(s)))

\* capitalizedLines with only the first line capitalized
capitalizedFirstLineOnly(buffer) ==
  LET lines == Split(buffer)
  IN  [i \in 1..Len(lines) |->
         IF lines[i] # <<>> /\ i = 1
         THEN <<toUpperCase(lines[i][1])>> \o Tail(lines[i]) ELSE lines[i]]

capitalizedLines(buffer) ==
  LET lines == Split(buffer)
  IN  [i \in 1..Len(lines) |->
         IF lines[i] # <<>> THEN <<toUpperCase(lines[i][1])>> \o Tail(lines[i]) ELSE <<>>]

\* s.trim()
RECURSIVE TrimStart(_)
TrimStart(s) == IF Len(s) > 0 /\ s[1] \in White THEN TrimStart(Tail(s)) ELSE s

RECURSIVE TrimEnd(_)
TrimEnd(s) ==
  IF Len(s) > 0 /\ s[Len(s)] \in White THEN TrimEnd(SubSeq(s, 1, Len(s) - 1)) ELSE s

trim(s) == TrimEnd(TrimStart(s))


\* ------------------------------------------------------------- messages
\* e.message / err.message, the close reason: what the platform reports
Messages == {""}

\* text carried by a channel message; <<>> is a message without text parts
Fragments == {<<>>, <<"a">>, <<" ">>}

\* Date.now(): T0 at construction, advanced by the gap before each message
T0 == 1000
Gaps == {GapThreshold + 1}
MaxClock == T0 + MaxMsgs * (GapThreshold + 1)

NullBlob == [null |-> TRUE]

NoCall == [op |-> "none"]

NoUpdate == [called |-> FALSE, lines |-> <<>>]

Update(lines) == [called |-> TRUE, lines |-> lines]

NoMsg == [arrived |-> FALSE, text |-> <<>>]

Message(responseText) == [arrived |-> TRUE, text |-> responseText]

\* ------------------------------------------- the other hooks and helpers
\* useAudioRecorder: its React state and refs, and the platform objects of
\* each startRecording call (the call's position, its MediaStream and the
\* state of its MediaRecorder).  error "" stands for null.
Recordings == 1..MaxRecStarts

RecorderInit ==
  [ isRecording      |-> FALSE,
    isPaused         |-> FALSE,
    error            |-> "",
    mediaRecorderRef |-> NULL,
    streamRef        |-> NULL,
    audioChunksRef   |-> <<>>,
    call             |-> [k \in Recordings |-> "none"],
    tracks           |-> [k \in Recordings |-> "none"],
    state            |-> [k \in Recordings |-> "none"],
    stopping         |-> [k \in Recordings |-> "no"],
    blob             |-> <<>>,
    mounted          |-> TRUE ]

\* retryOperation: the position of one call, its parameters and locals, the
\* number of times it invoked the operation and how each attempt ended
Undefined == [message |-> <<>>, status |-> 0, undefined |-> TRUE]

RetryInit ==
  [ pc        |-> "idle",
    retries   |-> 0,
    initialDelay |-> 0,
    i         |-> 0,
    lastError |-> Undefined,
    waitTime  |-> 0,
    calls     |-> 0,
    outcomes  |-> <<>>,
    result    |-> "",
    thrown    |-> Undefined ]

\* ---------------------------------------------------------------- state
VARIABLES
  \* React state of the hook
  status, error, isSessionActive, isPaused,
  \* refs
  isSessionActiveForCallback, isPausedForCallback,
  sessionPromiseRef, inputAudioContextRef, scriptProcessorNodeRef,
  sourceNodeRef, streamRef,
  bufferRef, lastMessageTimeRef, capturedAudioChunksRef,
  \* the platform: one entry per startSession call that reached line 166
  call,        \* position of the call: "none", "awaitMedia", "done"
  tracks,      \* its MediaStream: "none", "live", "stopped"
  stopCalls,   \* number of track.stop() calls made on it
  node,        \* its script processor: "none", "connected", "disconnected"
  chan,        \* its channel: "none", "connecting", "open", "closing", "errored", "closed"
  promise,     \* its connect promise: "none", "pending", "resolved", "rejected"
  thens,       \* callbacks chained on the pending promise, in order
  sent,        \* wire frames handed to sendRealtimeInput while the channel was open
  closeReq,    \* number of session.close() callbacks chained by cleanUpSession
  now,         \* the wall clock
  nFrames,     \* frames delivered by audio processors so far
  \* the caller
  ret,         \* what the step just taken returned to its caller, if it was a call
  delivered,   \* what the step just taken passed to onTranscriptUpdate, if anything
  received,    \* the text of the message the step just taken handled, if it was one
  \* outside useLiveSession
  recorder,    \* a useAudioRecorder instance
  retry        \* a retryOperation call

reactVars == <<status, error, isSessionActive, isPaused>>
mirrorVars == <<isSessionActiveForCallback, isPausedForCallback>>
audioRefs == <<inputAudioContextRef, scriptProcessorNodeRef, sourceNodeRef, streamRef>>
sessionVars == <<bufferRef, lastMessageTimeRef, capturedAudioChunksRef>>
deviceVars == <<tracks, stopCalls, node>>
channelVars == <<chan, promise, thens, sent, closeReq>>
vars == <<reactVars, mirrorVars, audioRefs, sessionPromiseRef, sessionVars, call,
          deviceVars, channelVars, now, nFrames, ret, delivered, received,
          recorder, retry>>

otherHooks == <<recorder, retry>>

liveVars == <<reactVars, mirrorVars, audioRefs, sessionPromiseRef, sessionVars, call,
              deviceVars, channelVars, now, nFrames, ret, delivered, received>>

Init ==
  /\ status = ""
  /\ error = ""
  /\ isSessionActive = FALSE
  /\ isPaused = FALSE
  /\ isSessionActiveForCallback = FALSE
  /\ isPausedForCallback = FALSE
  /\ sessionPromiseRef = NULL
  /\ inputAudioContextRef = NULL
  /\ scriptProcessorNodeRef = NULL
  /\ sourceNodeRef = NULL
  /\ streamRef = NULL
  /\ bufferRef = <<>>
  /\ lastMessageTimeRef = NULL
  /\ capturedAudioChunksRef = <<>>
  /\ call = [k \in Sessions |-> "none"]
  /\ tracks = [k \in Sessions |-> "none"]
  /\ stopCalls = [k \in Sessions |-> 0]
  /\ node = [k \in Sessions |-> "none"]
  /\ chan = [k \in Sessions |-> "none"]
  /\ promise = [k \in Sessions |-> "none"]
  /\ thens = [k \in Sessions |-> <<>>]
  /\ sent = [k \in Sessions |-> <<>>]
  /\ closeReq = [k \in Sessions |-> 0]
  /\ now = T0
  /\ nFrames = 0
  /\ ret = NoCall
  /\ delivered = NoUpdate
  /\ received = NoMsg
  /\ recorder = RecorderInit
  /\ retry = RetryInit

\* a callback chained on a connect promise: the send of line 273-276 for one
\* frame, or the close of line 128
SendItem(pcm) == [kind |-> "send", pcm |-> pcm]

CloseItem == [kind |-> "close", pcm |-> <<>>]

\* ------------------------------------------------------------- teardown
\* track.stop() on every track of the stream a ref holds
StopTracks(ref, tr) == IF ref # NULL THEN [tr EXCEPT ![ref] = "stopped"] ELSE tr

CountStop(ref, n) == IF ref # NULL THEN [n EXCEPT ![ref] = @ + 1] ELSE n

stopAudio ==
  /\ tracks' = StopTracks(streamRef, tracks)
  /\ stopCalls' = CountStop(streamRef, stopCalls)
  /\ streamRef' = NULL
  /\ node' = IF scriptProcessorNodeRef # NULL
             THEN [node EXCEPT ![scriptProcessorNodeRef] = "disconnected"]
             ELSE node
  /\ scriptProcessorNodeRef' = NULL
  /\ sourceNodeRef' = NULL
  /\ inputAudioContextRef' = NULL

\* session.close() running on the channel of promise p
CloseChannel(ch, p) == IF ch[p] = "open" THEN [ch EXCEPT ![p] = "closing"] ELSE ch

\* cleanUpSession; ch, th and pr are the channel map, the chained callbacks
\* and the promise map as the calling handler leaves them
cleanUpSession(ch, th, pr) ==
  /\ isSessionActive' = FALSE
  /\ isPaused' = FALSE
  /\ stopAudio
  /\ IF sessionPromiseRef = NULL
     THEN /\ chan' = ch
          /\ thens' = th
          /\ UNCHANGED closeReq
     ELSE /\ closeReq' = [closeReq EXCEPT ![sessionPromiseRef] = @ + 1]
          /\ chan' = IF pr[sessionPromiseRef] = "resolved"
                     THEN CloseChannel(ch, sessionPromiseRef) ELSE ch
          /\ thens' = IF pr[sessionPromiseRef] = "pending"
                      THEN [th EXCEPT ![sessionPromiseRef] = Append(@, CloseItem)]
                      ELSE th
  /\ sessionPromiseRef' = NULL
  /\ bufferRef' = <<>>
  /\ lastMessageTimeRef' = NULL
  /\ capturedAudioChunksRef' = <<>>

\* ------------------------------------------------------- caller's calls
FreeSessions == {k \in Sessions : call[k] = "none"}

\* a step that is no call of the hook's interface returns nothing
NoReturn == ret' = NoCall

NoDelivery == delivered' = NoUpdate

NoMessage == received' = NoMsg

\* startSession without the reset of the archive at line 161
startSessionKeepArchive(hasKey) ==
  IF isSessionActiveForCallback
  THEN /\ ret' = [op |-> "start", accepted |-> FALSE]
       /\ NoDelivery /\ NoMessage /\ UNCHANGED otherHooks
       /\ UNCHANGED <<reactVars, mirrorVars, audioRefs, sessionPromiseRef, sessionVars,
                      call, deviceVars, channelVars, now, nFrames>>
  ELSE IF ~hasKey
  THEN /\ error' = "Missing API Key. Please add it in settings."
       /\ ret' = [op |-> "start", accepted |-> FALSE]
       /\ NoDelivery /\ NoMessage /\ UNCHANGED otherHooks
       /\ UNCHANGED <<status, isSessionActive, isPaused, mirrorVars, audioRefs,
                      sessionPromiseRef, sessionVars, call, deviceVars, channelVars,
                      now, nFrames>>
  ELSE /\ FreeSessions # {}
       /\ LET k == CHOOSE i \in FreeSessions : \A j \in FreeSessions : i <= j
          IN  call' = [call EXCEPT ![k] = "awaitMedia"]
       /\ error' = ""
       /\ status' = "Connecting..."
       /\ bufferRef' = <<>>
       /\ UNCHANGED capturedAudioChunksRef
       /\ lastMessageTimeRef' = NULL
       /\ delivered' = Update(<<>>)
       /\ NoMessage /\ UNCHANGED otherHooks
       /\ isPaused' = FALSE
       /\ tracks' = StopTracks(streamRef, tracks)
       /\ stopCalls' = CountStop(streamRef, stopCalls)
       /\ ret' = [op |-> "start", accepted |-> TRUE]
       /\ UNCHANGED <<isSessionActive, mirrorVars, audioRefs, sessionPromiseRef, node,
                      channelVars, now, nFrames>>

\* startSession up to its await of getUserMedia (lines 149-172)
startSession(hasKey) ==
  IF isSessionActiveForCallback
  THEN /\ ret' = [op |-> "start", accepted |-> FALSE]
       /\ NoDelivery /\ NoMessage /\ UNCHANGED otherHooks
       /\ UNCHANGED <<reactVars, mirrorVars, audioRefs, sessionPromiseRef, sessionVars,
                      call, deviceVars, channelVars, now, nFrames>>
  ELSE IF ~hasKey
  THEN /\ error' = "Missing API Key. Please add it in settings."
       /\ ret' = [op |-> "start", accepted |-> FALSE]
       /\ NoDelivery /\ NoMessage /\ UNCHANGED otherHooks
       /\ UNCHANGED <<status, isSessionActive, isPaused, mirrorVars, audioRefs,
                      sessionPromiseRef, sessionVars, call, deviceVars, channelVars,
                      now, nFrames>>
  ELSE /\ FreeSessions # {}
       /\ LET k == CHOOSE i \in FreeSessions : \A j \in FreeSessions : i <= j
          IN  call' = [call EXCEPT ![k] = "awaitMedia"]
       /\ error' = ""
       /\ status' = "Connecting..."
       /\ bufferRef' = <<>>
       /\ capturedAudioChunksRef' = <<>>
       /\ lastMessageTimeRef' = NULL
       /\ delivered' = Update(<<>>)
       /\ NoMessage /\ UNCHANGED otherHooks
       /\ isPaused' = FALSE
       /\ tracks' = StopTracks(streamRef, tracks)
       /\ stopCalls' = CountStop(streamRef, stopCalls)
       /\ ret' = [op |-> "start", accepted |-> TRUE]
       /\ UNCHANGED <<isSessionActive, mirrorVars, audioRefs, sessionPromiseRef, node,
                      channelVars, now, nFrames>>

\* getUserMedia resolves: the rest of the try block (lines 173-284)
GetUserMediaResolve(k) ==
  /\ call[k] = "awaitMedia"
  /\ call' = [call EXCEPT ![k] = "done"]
  /\ streamRef' = k
  /\ tracks' = [tracks EXCEPT ![k] = "live"]
  /\ inputAudioContextRef' = k
  /\ sourceNodeRef' = k
  /\ chan' = [chan EXCEPT ![k] = "connecting"]
  /\ promise' = [promise EXCEPT ![k] = "pending"]
  /\ sessionPromiseRef' = k
  /\ scriptProcessorNodeRef' = k
  /\ node' = [node EXCEPT ![k] = "connected"]
  /\ NoReturn /\ NoDelivery /\ NoMessage /\ UNCHANGED otherHooks
  /\ UNCHANGED <<reactVars, mirrorVars, sessionVars, stopCalls, thens, sent, closeReq,
                 now, nFrames>>

\* the catch block without its cleanUpSession call
GetUserMediaRejectNoCleanup(k, m) ==
  /\ call[k] = "awaitMedia"
  /\ call' = [call EXCEPT ![k] = "done"]
  /\ error' = "Failed to start session: " \o m
  /\ status' = "Session failed to start."
  /\ NoReturn /\ NoDelivery /\ NoMessage /\ UNCHANGED otherHooks
  /\ UNCHANGED <<isSessionActive, isPaused, mirrorVars, audioRefs, sessionPromiseRef,
                 sessionVars, deviceVars, channelVars, now, nFrames>>

\* getUserMedia rejects: the catch block (lines 286-291)
GetUserMediaReject(k, m) ==
  /\ call[k] = "awaitMedia"
  /\ call' = [call EXCEPT ![k] = "done"]
  /\ error' = "Failed to start session: " \o m
  /\ status' = "Session failed to start."
  /\ cleanUpSession(chan, thens, promise)
  /\ NoReturn /\ NoDelivery /\ NoMessage /\ UNCHANGED otherHooks
  /\ UNCHANGED <<mirrorVars, promise, sent, now, nFrames>>

pauseSession ==
  /\ IF isSessionActiveForCallback
     THEN /\ isPaused' = TRUE
          /\ status' = "Live session paused..."
     ELSE UNCHANGED <<isPaused, status>>
  /\ ret' = [op |-> "pause"]
  /\ NoDelivery /\ NoMessage /\ UNCHANGED otherHooks
  /\ UNCHANGED <<error, isSessionActive, mirrorVars, audioRefs, sessionPromiseRef,
                 sessionVars, call, deviceVars, channelVars, now, nFrames>>

resumeSession ==
  /\ IF isSessionActiveForCallback
     THEN /\ isPaused' = FALSE
          /\ status' = "Live session resumed. Listening..."
     ELSE UNCHANGED <<isPaused, status>>
  /\ ret' = [op |-> "resume"]
  /\ NoDelivery /\ NoMessage /\ UNCHANGED otherHooks
  /\ UNCHANGED <<error, isSessionActive, mirrorVars, audioRefs, sessionPromiseRef,
                 sessionVars, call, deviceVars, channelVars, now, nFrames>>

\* stopSession reading the buffer and the archive after cleanUpSession
stopSessionCleanFirst ==
  IF ~isSessionActiveForCallback
  THEN /\ ret' = [op |-> "stop", ran |-> FALSE, transcript |-> <<>>, audioBlob |-> NullBlob]
       /\ NoDelivery /\ NoMessage /\ UNCHANGED otherHooks
       /\ UNCHANGED <<reactVars, mirrorVars, audioRefs, sessionPromiseRef, sessionVars,
                      call, deviceVars, channelVars, now, nFrames>>
  ELSE /\ status' = "Session stopped."
       /\ cleanUpSession(chan, thens, promise)
       /\ LET finalTranscript == trim(bufferRef')
              finalAudioBlob ==
                IF Len(capturedAudioChunksRef') > 0
                THEN createWavBlob(Concat(capturedAudioChunksRef'), SAMPLE_RATE)
                ELSE NullBlob
          IN  ret' = [op |-> "stop", ran |-> TRUE, transcript |-> finalTranscript,
                      audioBlob |-> finalAudioBlob]
       /\ NoDelivery /\ NoMessage /\ UNCHANGED otherHooks
       /\ UNCHANGED <<error, mirrorVars, call, promise, sent, now, nFrames>>

\* stopSession building a container only when the transcript is non-empty
stopSessionBlobIfText ==
  IF ~isSessionActiveForCallback
  THEN /\ ret' = [op |-> "stop", ran |-> FALSE, transcript |-> <<>>, audioBlob |-> NullBlob]
       /\ NoDelivery /\ NoMessage /\ UNCHANGED otherHooks
       /\ UNCHANGED <<reactVars, mirrorVars, audioRefs, sessionPromiseRef, sessionVars,
                      call, deviceVars, channelVars, now, nFrames>>
  ELSE /\ status' = "Session stopped."
       /\ LET finalTranscript == trim(bufferRef)
              finalAudioBlob ==
                IF Len(capturedAudioChunksRef) > 0 /\ Len(finalTranscript) > 0
                THEN createWavBlob(Concat(capturedAudioChunksRef), SAMPLE_RATE)
                ELSE NullBlob
          IN  ret' = [op |-> "stop", ran |-> TRUE, transcript |-> finalTranscript,
                      audioBlob |-> finalAudioBlob]
       /\ cleanUpSession(chan, thens, promise)
       /\ NoDelivery /\ NoMessage /\ UNCHANGED otherHooks
       /\ UNCHANGED <<error, mirrorVars, call, promise, sent, now, nFrames>>

\* stopSession without the early return of lines 295-297
stopSessionUnguarded ==
  /\ status' = "Session stopped."
  /\ LET finalTranscript == trim(bufferRef)
         finalAudioBlob ==
           IF Len(capturedAudioChunksRef) > 0
           THEN createWavBlob(Concat(capturedAudioChunksRef), SAMPLE_RATE)
           ELSE NullBlob
     IN  ret' = [op |-> "stop", ran |-> isSessionActiveForCallback,
                 transcript |-> finalTranscript, audioBlob |-> finalAudioBlob]
  /\ cleanUpSession(chan, thens, promise)
  /\ NoDelivery /\ NoMessage /\ UNCHANGED otherHooks
  /\ UNCHANGED <<error, mirrorVars, call, promise, sent, now, nFrames>>

stopSession ==
  IF ~isSessionActiveForCallback
  THEN /\ ret' = [op |-> "stop", ran |-> FALSE, transcript |-> <<>>, audioBlob |-> NullBlob]
       /\ NoDelivery /\ NoMessage /\ UNCHANGED otherHooks
       /\ UNCHANGED <<reactVars, mirrorVars, audioRefs, sessionPromiseRef, sessionVars,
                      call, deviceVars, channelVars, now, nFrames>>
  ELSE /\ status' = "Session stopped."
       /\ LET finalTranscript == trim(bufferRef)
              finalAudioBlob ==
                IF Len(capturedAudioChunksRef) > 0
                THEN createWavBlob(Concat(capturedAudioChunksRef), SAMPLE_RATE)
                ELSE NullBlob
          IN  ret' = [op |-> "stop", ran |-> TRUE, transcript |-> finalTranscript,
                      audioBlob |-> finalAudioBlob]
       /\ cleanUpSession(chan, thens, promise)
       /\ NoDelivery /\ NoMessage /\ UNCHANGED otherHooks
       /\ UNCHANGED <<error, mirrorVars, call, promise, sent, now, nFrames>>

\* the two effects that copy the React state into the refs (lines 100-108)
RunEffects ==
  /\ \/ isSessionActiveForCallback # isSessionActive
     \/ isPausedForCallback # isPaused
  /\ isSessionActiveForCallback' = isSessionActive
  /\ isPausedForCallback' = isPaused
  /\ NoReturn /\ NoDelivery /\ NoMessage /\ UNCHANGED otherHooks
  /\ UNCHANGED <<reactVars, audioRefs, sessionPromiseRef, sessionVars, call, deviceVars,
                 channelVars, now, nFrames>>

\* ---------------------------------------------------- channel callbacks
\* the condition of the callback chained at line 273
SendGuard == isSessionActiveForCallback /\ ~isPausedForCallback

\* the callbacks chained on a promise run in order when it resolves
RECURSIVE RunThens(_, _, _)
RunThens(items, out, st) ==
  IF items = <<>> THEN [sent |-> out, state |-> st]
  ELSE LET h == Head(items)
       IN  IF h.kind = "close" THEN RunThens(Tail(items), out, "closing")
           ELSE IF SendGuard /\ st = "open"
                THEN RunThens(Tail(items), Append(out, createBlob(h.pcm)), st)
                ELSE RunThens(Tail(items), out, st)

\* onopen (lines 195-198); the connect promise resolves right after it
OnOpen(k) ==
  /\ chan[k] = "connecting"
  /\ promise[k] = "pending"
  /\ status' = "Connection opened. Listening..."
  /\ isSessionActive' = TRUE
  /\ promise' = [promise EXCEPT ![k] = "resolved"]
  /\ LET r == RunThens(thens[k], sent[k], "open")
     IN  /\ sent' = [sent EXCEPT ![k] = r.sent]
         /\ chan' = [chan EXCEPT ![k] = r.state]
  /\ thens' = [thens EXCEPT ![k] = <<>>]
  /\ NoReturn /\ NoDelivery /\ NoMessage /\ UNCHANGED otherHooks
  /\ UNCHANGED <<error, isPaused, mirrorVars, audioRefs, sessionPromiseRef, sessionVars,
                 call, deviceVars, closeReq, now, nFrames>>

\* onclose (lines 199-204)
OnClose(k) ==
  /\ chan[k] \in {"connecting", "open", "closing", "errored"}
  /\ IF isSessionActiveForCallback
     THEN /\ status' = "Connection closed: "
          /\ cleanUpSession([chan EXCEPT ![k] = "closed"], thens, promise)
          /\ UNCHANGED <<error, mirrorVars, call, promise, sent, now, nFrames>>
     ELSE /\ chan' = [chan EXCEPT ![k] = "closed"]
          /\ UNCHANGED <<reactVars, mirrorVars, audioRefs, sessionPromiseRef, sessionVars,
                         call, deviceVars, promise, thens, sent, closeReq, now, nFrames>>
  /\ NoReturn /\ NoDelivery /\ NoMessage /\ UNCHANGED otherHooks

\* onerror (lines 205-209)
OnError(k, m) ==
  /\ chan[k] \in {"connecting", "open", "closing"}
  /\ error' = "Error: " \o m
  /\ cleanUpSession([chan EXCEPT ![k] = "errored"], thens, promise)
  /\ NoReturn /\ NoDelivery /\ NoMessage /\ UNCHANGED otherHooks
  /\ UNCHANGED <<status, mirrorVars, call, promise, sent, now, nFrames>>

\* the rejection handler of the connect promise (lines 251-259)
PromiseReject(k, m) ==
  /\ promise[k] = "pending"
  /\ chan[k] \in {"connecting", "errored", "closed"}
  /\ promise' = [promise EXCEPT ![k] = "rejected"]
  /\ LET ch == IF chan[k] = "connecting" THEN [chan EXCEPT ![k] = "closed"] ELSE chan
         th == [thens EXCEPT ![k] = <<>>]
     IN  IF ~isSessionActiveForCallback
         THEN /\ error' = "Failed to start session: " \o m
              /\ status' = "Session failed to start."
              /\ cleanUpSession(ch, th, promise')
              /\ UNCHANGED <<mirrorVars, call, sent, now, nFrames>>
         ELSE /\ chan' = ch
              /\ thens' = th
              /\ UNCHANGED <<reactVars, mirrorVars, audioRefs, sessionPromiseRef,
                             sessionVars, call, deviceVars, sent, closeReq, now, nFrames>>
  /\ NoReturn /\ NoDelivery /\ NoMessage /\ UNCHANGED otherHooks

\* onmessage (lines 210-244), the clock having advanced by gap since the
\* last message
onmessage(k, responseText, gap) ==
  /\ chan[k] \in {"open", "closing"}
  /\ now' = now + gap
  /\ LET timeSinceLastMessage ==
           IF lastMessageTimeRef # NULL THEN now' - lastMessageTimeRef ELSE 0
     IN  IF responseText # <<>>
         THEN /\ bufferRef' = formattedText(
                   bufferRef \o Separator(bufferRef, responseText, timeSinceLastMessage)
                             \o responseText)
              /\ delivered' = Update(capitalizedLines(bufferRef'))
         ELSE /\ NoDelivery
              /\ UNCHANGED bufferRef
  /\ lastMessageTimeRef' = now'
  /\ received' = Message(responseText)
  /\ NoReturn /\ UNCHANGED otherHooks
  /\ UNCHANGED <<reactVars, mirrorVars, audioRefs, sessionPromiseRef,
                 capturedAudioChunksRef, call, deviceVars, channelVars, nFrames>>

OnMessage(k, responseText, gap) ==
  /\ now + gap <= MaxClock
  /\ onmessage(k, responseText, gap)

\* onaudioprocess of the k-th call's script processor (lines 269-281)
OnAudioProcess(k) ==
  /\ node[k] = "connected"
  /\ nFrames < MaxFrames
  /\ nFrames' = nFrames + 1
  /\ LET pcmData == FrameData(nFrames')
     IN  /\ capturedAudioChunksRef' = Append(capturedAudioChunksRef, pcmData)
         /\ sent' = IF promise[k] = "resolved" /\ SendGuard /\ chan[k] = "open"
                    THEN [sent EXCEPT ![k] = Append(@, createBlob(pcmData))]
                    ELSE sent
         /\ thens' = IF promise[k] = "pending"
                     THEN [thens EXCEPT ![k] = Append(@, SendItem(pcmData))]
                     ELSE thens
  /\ NoReturn /\ NoDelivery /\ NoMessage /\ UNCHANGED otherHooks
  /\ UNCHANGED <<reactVars, mirrorVars, audioRefs, sessionPromiseRef, bufferRef,
                 lastMessageTimeRef, call, deviceVars, chan, promise, closeReq, now>>

Next ==
  \/ \E hasKey \in BOOLEAN : startSession(hasKey)
  \/ pauseSession
  \/ resumeSession
  \/ stopSession
  \/ RunEffects
  \/ \E k \in Sessions : GetUserMediaResolve(k)
  \/ \E k \in Sessions, m \in Messages : GetUserMediaReject(k, m)
  \/ \E k \in Sessions : OnOpen(k)
  \/ \E k \in Sessions : OnClose(k)
  \/ \E k \in Sessions, m \in Messages : OnError(k, m)
  \/ \E k \in Sessions, m \in Messages : PromiseReject(k, m)
  \/ \E k \in Sessions, t \in Fragments, g \in Gaps : OnMessage(k, t, g)
  \/ \E k \in Sessions : OnAudioProcess(k)

Spec == Init /\ [][Next]_vars

\* --------------------------------------------- reconciler under load
\* The state startSession, getUserMedia resolving, onopen and the effects
\* lead to: the first session is Active and nothing has arrived yet.
ActiveSession ==
  /\ status = "Connection opened. Listening..."
  /\ error = ""
  /\ isSessionActive = TRUE
  /\ isPaused = FALSE
  /\ isSessionActiveForCallback = TRUE
  /\ isPausedForCallback = FALSE
  /\ sessionPromiseRef = 1
  /\ inputAudioContextRef = 1
  /\ scriptProcessorNodeRef = 1
  /\ sourceNodeRef = 1
  /\ streamRef = 1
  /\ bufferRef = <<>>
  /\ lastMessageTimeRef = NULL
  /\ capturedAudioChunksRef = <<>>
  /\ call = [k \in Sessions |-> IF k = 1 THEN "done" ELSE "none"]
  /\ tracks = [k \in Sessions |-> IF k = 1 THEN "live" ELSE "none"]
  /\ stopCalls = [k \in Sessions |-> 0]
  /\ node = [k \in Sessions |-> IF k = 1 THEN "connected" ELSE "none"]
  /\ chan = [k \in Sessions |-> IF k = 1 THEN "open" ELSE "none"]
  /\ promise = [k \in Sessions |-> IF k = 1 THEN "resolved" ELSE "none"]
  /\ thens = [k \in Sessions |-> <<>>]
  /\ sent = [k \in Sessions |-> <<>>]
  /\ closeReq = [k \in Sessions |-> 0]
  /\ now = T0
  /\ nFrames = 0
  /\ ret = NoCall
  /\ delivered = NoUpdate
  /\ received = NoMsg
  /\ recorder = RecorderInit
  /\ retry = RetryInit

\* messages the channel of that session delivers: text of every character
\* class the display derivation looks at, and gaps just below, at and just
\* above the threshold of line 225 (so the clock bound admits MaxTextMsgs
\* messages and no more)
MaxTextMsgs == 3

TextFragments ==
  { <<>>, <<"a">>, <<"B">>, <<"1">>, <<" ">>, <<".">>, <<".", ".", ".">>,
    <<BSL>>, <<"n">>, <<"a", LF, "b">> }

TextGaps == {GapThreshold - 1, GapThreshold, GapThreshold + 1}

TextMaxClock == T0 + MaxTextMsgs * (GapThreshold + 1)

TextMessage(responseText, gap) ==
  /\ now + gap <= TextMaxClock
  /\ onmessage(1, responseText, gap)

InitText == ActiveSession

NextText == \E t \in TextFragments, g \in TextGaps : TextMessage(t, g)

SpecText == InitText /\ [][NextText]_vars

\* ------------------------------------------------ the codec on its own
\* createBlob and createWavBlob are module-level functions; here they are
\* called directly on blocks of samples from the whole range [-1, 1] and at
\* several sample rates.
MaxBlockLen == 2

Samples == {-32768, -1, 0, 1, 32767, 32768}

SampleBlocks == UNION {[1..n -> Samples] : n \in 0..MaxBlockLen}

Rates == {8000, SAMPLE_RATE, 44100}

CallCreateBlob(data) ==
  /\ ret' = [op |-> "createBlob", data |-> data, int16 |-> createBlob(data)]
  /\ NoDelivery /\ NoMessage /\ UNCHANGED otherHooks
  /\ UNCHANGED <<reactVars, mirrorVars, audioRefs, sessionPromiseRef, sessionVars, call,
                 deviceVars, channelVars, now, nFrames>>

CallCreateWavBlob(pcmData, sampleRate) ==
  /\ ret' = [op |-> "createWavBlob", pcmData |-> pcmData, sampleRate |-> sampleRate,
             blob |-> createWavBlob(pcmData, sampleRate)]
  /\ NoDelivery /\ NoMessage /\ UNCHANGED otherHooks
  /\ UNCHANGED <<reactVars, mirrorVars, audioRefs, sessionPromiseRef, sessionVars, call,
                 deviceVars, channelVars, now, nFrames>>

InitCodec == Init

NextCodec ==
  \/ \E data \in SampleBlocks : CallCreateBlob(data)
  \/ \E pcmData \in SampleBlocks, sampleRate \in Rates : CallCreateWavBlob(pcmData, sampleRate)

SpecCodec == InitCodec /\ [][NextCodec]_vars

\* ------------------------------------------------------ useAudioRecorder
\* the guard of lines 365, 433 and 465
RecorderActive ==
  /\ recorder.mediaRecorderRef # NULL
  /\ recorder.state[recorder.mediaRecorderRef] # "inactive"

FreeRecordings == {k \in Recordings : recorder.call[k] = "none"}

\* startRecording up to its await of getUserMedia (lines 362-376)
startRecording(supported) ==
  /\ recorder.mounted
  /\ IF RecorderActive
     THEN recorder' = [recorder EXCEPT !.error = ""]
     ELSE IF ~supported
     THEN recorder' =
            [recorder EXCEPT !.error = "Audio recording is not supported in this browser."]
     ELSE /\ FreeRecordings # {}
          /\ LET k == CHOOSE i \in FreeRecordings : \A j \in FreeRecordings : i <= j
             IN  recorder' = [recorder EXCEPT !.error = "", !.call[k] = "awaitMedia"]
  /\ UNCHANGED <<liveVars, retry>>

\* getUserMedia resolves: the rest of the try block (lines 377-405)
RecorderMediaResolve(k) ==
  /\ recorder.call[k] = "awaitMedia"
  /\ recorder' = [recorder EXCEPT !.call[k] = "done",
                                   !.tracks[k] = "live",
                                   !.streamRef = k,
                                   !.audioChunksRef = <<>>,
                                   !.mediaRecorderRef = k,
                                   !.state[k] = "recording",
                                   !.isRecording = TRUE,
                                   !.isPaused = FALSE]
  /\ UNCHANGED <<liveVars, retry>>

\* getUserMedia rejects: the catch block (lines 406-414)
RecorderMediaReject(k, denied) ==
  /\ recorder.call[k] = "awaitMedia"
  /\ recorder' =
       [recorder EXCEPT
          !.call[k] = "done",
          !.error = IF denied
                    THEN "Microphone permission denied. Please allow microphone access in your browser settings."
                    ELSE "Could not access the microphone. Please ensure it is connected and enabled.",
          !.isRecording = FALSE]
  /\ UNCHANGED <<liveVars, retry>>

pauseRecording ==
  /\ recorder.mounted
  /\ IF /\ recorder.mediaRecorderRef # NULL
        /\ recorder.state[recorder.mediaRecorderRef] = "recording"
     THEN recorder' = [recorder EXCEPT !.state[recorder.mediaRecorderRef] = "paused",
                                      !.isPaused = TRUE]
     ELSE UNCHANGED recorder
  /\ UNCHANGED <<liveVars, retry>>

resumeRecording ==
  /\ recorder.mounted
  /\ IF /\ recorder.mediaRecorderRef # NULL
        /\ recorder.state[recorder.mediaRecorderRef] = "paused"
     THEN recorder' = [recorder EXCEPT !.state[recorder.mediaRecorderRef] = "recording",
                                      !.isPaused = FALSE]
     ELSE UNCHANGED recorder
  /\ UNCHANGED <<liveVars, retry>>

\* stopRecording (lines 431-461): recorder.stop() makes the recorder inactive
\* at once; its dataavailable and stop events follow
stopRecording ==
  /\ recorder.mounted
  /\ IF RecorderActive
     THEN recorder' = [recorder EXCEPT !.state[recorder.mediaRecorderRef] = "inactive",
                                      !.stopping[recorder.mediaRecorderRef] = "listened"]
     ELSE recorder' = [recorder EXCEPT !.blob = <<>>]
  /\ UNCHANGED <<liveVars, retry>>

\* the dataavailable and stop events of a stopped recorder: the listener of
\* line 399 and, if stopRecording registered it, the one of lines 444-448
RecorderStopped(k) ==
  /\ recorder.stopping[k] # "no"
  /\ LET chunks == Append(recorder.audioChunksRef, k)
     IN  IF recorder.stopping[k] = "listened"
         THEN recorder' =
                [recorder EXCEPT
                   !.audioChunksRef = chunks,
                   !.blob = chunks,
                   !.tracks = IF recorder.streamRef # NULL
                              THEN [@ EXCEPT ![recorder.streamRef] = "stopped"] ELSE @,
                   !.streamRef = NULL,
                   !.mediaRecorderRef = NULL,
                   !.isRecording = FALSE,
                   !.isPaused = FALSE,
                   !.stopping[k] = "no"]
         ELSE recorder' = [recorder EXCEPT !.audioChunksRef = chunks, !.stopping[k] = "no"]
  /\ UNCHANGED <<liveVars, retry>>

\* the unmount cleanup (lines 463-470)
RecorderUnmount ==
  /\ recorder.mounted
  /\ recorder' =
       [recorder EXCEPT
          !.mounted = FALSE,
          !.state = IF RecorderActive
                    THEN [@ EXCEPT ![recorder.mediaRecorderRef] = "inactive"] ELSE @,
          !.stopping = IF RecorderActive
                       THEN [@ EXCEPT ![recorder.mediaRecorderRef] = "unlistened"] ELSE @,
          !.tracks = IF recorder.streamRef # NULL
                     THEN [@ EXCEPT ![recorder.streamRef] = "stopped"] ELSE @]
  /\ UNCHANGED <<liveVars, retry>>

InitRecorder == Init

NextRecorder ==
  \/ \E supported \in BOOLEAN : startRecording(supported)
  \/ \E k \in Recordings : RecorderMediaResolve(k)
  \/ \E k \in Recordings, denied \in BOOLEAN : RecorderMediaReject(k, denied)
  \/ pauseRecording
  \/ resumeRecording
  \/ stopRecording
  \/ \E k \in Recordings : RecorderStopped(k)
  \/ RecorderUnmount

SpecRecorder == InitRecorder /\ [][NextRecorder]_vars

\* -------------------------------------------------------- retryOperation
\* the errors an attempt can reject with: message is the list of the words of
\* error.message (empty when there is none), status is error.status (0 when
\* there is none)
ErrorMessages == {<<>>, <<"429">>, <<"quota", "RESOURCE_EXHAUSTED">>, <<"503">>, <<"400">>}

ErrorStatuses == {0, 429, 503, 400}

Errors ==
  [message : ErrorMessages, status : ErrorStatuses, undefined : {FALSE}]

Values == {"v1", "v2"}

InitialDelays == {1000}

\* String.prototype.includes on the words of a message
includes(message, word) == \E n \in DOMAIN message : message[n] = word

\* isRateLimit || isServerOverload (lines 30-33)
isRetryable(e) ==
  LET isRateLimit == \/ includes(e.message, "429")
                     \/ includes(e.message, "RESOURCE_EXHAUSTED")
                     \/ e.status = 429
      isServerOverload == \/ includes(e.message, "503")
                          \/ e.status = 503
  IN  isRateLimit \/ isServerOverload

\* Math.pow(2, i) (line 36)
Pow2(n) == 2 ^ n

\* the loop test of line 24 and what follows it without yielding: the next
\* invocation of the operation (line 26), or the throw of line 45
LoopTest(r) ==
  IF r.i < r.retries
  THEN [r EXCEPT !.pc = "operation", !.calls = @ + 1]
  ELSE [r EXCEPT !.pc = "threw", !.thrown = r.lastError]

\* a call of retryOperation, up to its first await
retryOperation(retries, initialDelay) ==
  /\ retry.pc = "idle"
  /\ retry' = LoopTest([retry EXCEPT !.retries = retries,
                                     !.initialDelay = initialDelay,
                                     !.i = 0])
  /\ UNCHANGED <<liveVars, recorder>>

\* the awaited operation resolves: return (line 26)
OperationResolves(v) ==
  /\ retry.pc = "operation"
  /\ retry' = [retry EXCEPT !.pc = "returned",
                             !.result = v,
                             !.outcomes = Append(@, [ok |-> TRUE, value |-> v,
                                                     error |-> Undefined])]
  /\ UNCHANGED <<liveVars, recorder>>

\* the catch block without the test of line 35: every error is retried
OperationRejectsAnyError(e) ==
  /\ retry.pc = "operation"
  /\ LET r == [retry EXCEPT !.lastError = e,
                            !.outcomes = Append(@, [ok |-> FALSE, value |-> "",
                                                    error |-> e])]
     IN  retry' =
           IF r.i = r.retries - 1
           THEN [r EXCEPT !.pc = "threw", !.thrown = r.lastError]
           ELSE [r EXCEPT !.pc = "delay",
                          !.waitTime = r.initialDelay * Pow2(r.i)]
  /\ UNCHANGED <<liveVars, recorder>>

\* the awaited operation rejects: the catch block (lines 27-42)
OperationRejects(e) ==
  /\ retry.pc = "operation"
  /\ LET r == [retry EXCEPT !.lastError = e,
                            !.outcomes = Append(@, [ok |-> FALSE, value |-> "",
                                                    error |-> e])]
     IN  retry' =
           IF isRetryable(e)
           THEN IF r.i = r.retries - 1
                THEN [r EXCEPT !.pc = "threw", !.thrown = r.lastError]
                ELSE [r EXCEPT !.pc = "delay",
                               !.waitTime = r.initialDelay * Pow2(r.i)]
           ELSE [r EXCEPT !.pc = "threw", !.thrown = e]
  /\ UNCHANGED <<liveVars, recorder>>

\* the timer of delay(waitTime) fires: continue, i++ and the loop test
DelayElapsed ==
  /\ retry.pc = "delay"
  /\ retry' = LoopTest([retry EXCEPT !.i = @ + 1])
  /\ UNCHANGED <<liveVars, recorder>>

InitRetry == Init

NextRetry ==
  \/ \E retries \in 0..MaxRetries, initialDelay \in InitialDelays :
       retryOperation(retries, initialDelay)
  \/ \E v \in Values : OperationResolves(v)
  \/ \E e \in Errors : OperationRejects(e)
  \/ DelayElapsed

\* the awaited promise settles and the timer fires: the event loop runs every
\* continuation that is ready
SpecRetry ==
  /\ InitRetry
  /\ [][NextRetry]_vars
  /\ WF_vars(\E v \in Values : OperationResolves(v))
  /\ WF_vars(\E e \in Errors : OperationRejects(e))
  /\ WF_vars(DelayElapsed)

\* ------------------------------------------------ controller states
\* a startSession call is waiting for the device
AwaitingMedia == \E k \in Sessions : call[k] = "awaitMedia"

\* no session: nothing held, nothing in progress, both active flags down
Idle ==
  /\ ~isSessionActiveForCallback
  /\ ~isSessionActive
  /\ ~AwaitingMedia
  /\ streamRef = NULL
  /\ sessionPromiseRef = NULL

\* the session is Active or Paused: open and seen as such by the callbacks
ActiveOrPaused == isSessionActiveForCallback /\ isSessionActive

\* ---------------------------------------------------------------- claims
\* C1: a stop() call made in any non-Idle state (Connecting included) leaves
\* the controller with the device released, no channel held and the session
\* not active.
C1_StopFromAnyState ==
  [][(ret'.op = "stop" /\ ~Idle) =>
       (streamRef' = NULL /\ sessionPromiseRef' = NULL /\ ~isSessionActive')]_vars

\* C2: a start() call made while the controller is not Idle (Connecting,
\* Active or Paused) is rejected: it acquires no device, opens no channel and
\* leaves the transcript buffer, the archive and the last-arrival time alone.
C2_StartRejectedUnlessIdle ==
  [][(ret'.op = "start" /\ ~Idle) =>
       (/\ ~ret'.accepted
        /\ UNCHANGED <<call, tracks, stopCalls, chan, promise, bufferRef,
                       capturedAudioChunksRef, lastMessageTimeRef>>)]_vars

\* C3: every session's device is released exactly once and its channel's
\* close is requested exactly once: no stream is stopped twice, no channel
\* has close chained twice, and a stream or channel that has not been
\* released yet is still the one the controller's cleanup will release.
C3_ReleasedExactlyOnce ==
  \A k \in Sessions :
    /\ stopCalls[k] <= 1
    /\ closeReq[k] <= 1
    /\ tracks[k] = "live" => streamRef = k
    /\ (promise[k] # "none" /\ closeReq[k] = 0) => sessionPromiseRef = k

\* C4: in an Active or Paused session every captured frame is archived in
\* capture order, and a frame captured after pause() returned (and before
\* any resume) is not sent.
C4_PauseStopsSending ==
  [][(nFrames' = nFrames + 1 /\ ActiveOrPaused) =>
       (/\ capturedAudioChunksRef' = Append(capturedAudioChunksRef, FrameData(nFrames'))
        /\ isPaused => sent' = sent)]_vars

\* C5: when an open channel closes or errors during an Active or Paused
\* session, the transcript and the archived frames are preserved.
C5_TerminationPreservesPartial ==
  [][(/\ ActiveOrPaused
      /\ \E k \in Sessions : chan[k] = "open" /\ chan'[k] \in {"closed", "errored"}) =>
       (bufferRef' = bufferRef /\ capturedAudioChunksRef' = capturedAudioChunksRef)]_vars

\* t is s without its leading and trailing whitespace
IsTrimOf(t, s) ==
  /\ t # <<>> => (t[1] \notin White /\ t[Len(t)] \notin White)
  /\ \E i \in 1..(Len(s) + 1) :
       /\ SubSeq(s, i, i + Len(t) - 1) = t
       /\ \A j \in 1..Len(s) : (j < i \/ j >= i + Len(t)) => s[j] \in White

\* blob is a container whose payload is the frames of chunks, in order
IsContainerOf(blob, chunks) ==
  /\ blob # NullBlob
  /\ Len(blob.payload) = Len(chunks) * FrameLen
  /\ \A j \in 1..Len(chunks) : \A o \in 1..FrameLen :
       blob.payload[(j - 1) * FrameLen + o] = WavSample(chunks[j][o])

\* C6 as stated: stop() on an Active or Paused session returns the transcript
\* buffer as it stood at the call and a container of every archived frame in
\* capture order.
C6_StopReturnsBuffer ==
  [][(ret'.op = "stop" /\ ActiveOrPaused) =>
       (/\ ret'.transcript = bufferRef
        /\ capturedAudioChunksRef # <<>> =>
             IsContainerOf(ret'.audioBlob, capturedAudioChunksRef))]_vars

\* C6 amended: stop() on an Active or Paused session returns the transcript
\* buffer as it stood at the call with its leading and trailing whitespace
\* removed, and a container of every archived frame in capture order, both
\* taken before the per-session state is cleared.
C6_StopReturnsTrimmedBuffer ==
  [][(ret'.op = "stop" /\ ActiveOrPaused) =>
       (/\ ret'.ran
        /\ IsTrimOf(ret'.transcript, bufferRef)
        /\ capturedAudioChunksRef # <<>> =>
             IsContainerOf(ret'.audioBlob, capturedAudioChunksRef)
        /\ bufferRef' = <<>> /\ capturedAudioChunksRef' = <<>>)]_vars

C6_Witness ==
  /\ ret.op = "stop"
  /\ ret.ran
  /\ ret.transcript = <<"a">>
  /\ ret.audioBlob # NullBlob
  /\ Len(ret.audioBlob.payload) = 2 * FrameLen
  /\ bufferRef = <<>>

C8_StartAfterStopAccepted ==
  [][(/\ ret.op = "stop" /\ ret.ran
      /\ ret'.op = "start"
      /\ error' # "Missing API Key. Please add it in settings.") =>
       ret'.accepted]_vars

\* C9: when a channel fails before it opened (its connect promise rejects,
\* or onerror fires while it is connecting) a non-empty error is surfaced,
\* the session is not active and the device and channel are let go.
C9_ConnectFailureCleansUp ==
  [][(\E k \in Sessions :
        /\ promise[k] = "pending"
        /\ \/ promise'[k] = "rejected"
           \/ chan[k] = "connecting" /\ chan'[k] = "errored") =>
       (/\ error' # ""
        /\ ~isSessionActive'
        /\ streamRef' = NULL
        /\ sessionPromiseRef' = NULL)]_vars

\* C10: when getUserMedia fails, a non-empty error is surfaced, no device
\* handle or audio node is held, the session is not active, the step opens
\* no channel, and the failed call never has a channel or a processor.
C10_AcquireFailure ==
  /\ [][(\E k \in Sessions :
           call[k] = "awaitMedia" /\ call'[k] = "done" /\ tracks'[k] = "none") =>
          (/\ error' # ""
           /\ streamRef' = NULL
           /\ inputAudioContextRef' = NULL
           /\ sourceNodeRef' = NULL
           /\ scriptProcessorNodeRef' = NULL
           /\ sessionPromiseRef' = NULL
           /\ ~isSessionActive'
           /\ \A j \in Sessions : chan'[j] = "connecting" => chan[j] = "connecting")]_vars
  /\ [](\A k \in Sessions :
          (call[k] = "done" /\ tracks[k] = "none") =>
            (chan[k] = "none" /\ promise[k] = "none" /\ node[k] = "none"))

C10_Witness ==
  \E k \in Sessions :
    /\ call[k] = "done"
    /\ tracks[k] = "none"
    /\ error = "Failed to start session: "
    /\ status = "Session failed to start."
    /\ streamRef = NULL

\* C11: when the channel of an Active or Paused session closes without the
\* caller having asked for the close, the session is no longer active, the
\* device and the channel reference are let go, and the error observable
\* holds a non-empty string.
C11_UnexpectedCloseSurfacesError ==
  [][(/\ ActiveOrPaused
      /\ sessionPromiseRef # NULL
      /\ chan[sessionPromiseRef] = "open"
      /\ chan'[sessionPromiseRef] = "closed") =>
       (/\ error' # ""
        /\ ~isSessionActive'
        /\ streamRef' = NULL
        /\ sessionPromiseRef' = NULL)]_vars

\* C12: when a text fragment arrives, the text the handler appends to the
\* buffer is the fragment preceded by a single space if and only if the time
\* since the previous arrival is strictly greater than 300 ms, the buffer is
\* non-empty, the buffer does not end in whitespace and the fragment does not
\* start with whitespace; otherwise it is the fragment alone.  (The buffer
\* stored is the display derivation of the result.)
C12_GapSpacing ==
  [][(received'.arrived /\ received'.text # <<>>) =>
       LET fragment == received'.text
           gap == now' - now
           space == /\ gap > 300
                    /\ bufferRef # <<>>
                    /\ bufferRef[Len(bufferRef)] \notin {" ", LF}
                    /\ fragment[1] \notin {" ", LF}
       IN  bufferRef' =
             formattedText(bufferRef \o (IF space THEN <<" ">> ELSE <<>>) \o fragment)]_vars

\* "a" and then, 301 ms later, "a": the buffer reads "a a"
C12_Witness ==
  /\ received.text = <<"a">>
  /\ now = T0 + 2 * GapThreshold + 1
  /\ lastMessageTimeRef = now
  /\ bufferRef = <<"a", " ", "a">>

\* C13: the display derivation is stable under repetition: applied to the
\* stored buffer, which is already its own output, it yields the same text.
C13_RenderIdempotent == formattedText(bufferRef) = bufferRef

\* p is a prefix of s
IsPrefix(p, s) == Len(p) <= Len(s) /\ SubSeq(s, 1, Len(p)) = p

\* C14: the buffer never backtracks: the buffer as it stood before a
\* fragment is a prefix of the buffer after it, except that a backslash
\* ending the old buffer may have become a line break with the fragment's
\* leading "n".
C14_NoBacktracking ==
  [][(received'.arrived /\ received'.text # <<>>) =>
       \/ IsPrefix(bufferRef, bufferRef')
       \/ /\ bufferRef # <<>>
          /\ bufferRef[Len(bufferRef)] = BSL
          /\ received'.text[1] = "n"
          /\ IsPrefix(SubSeq(bufferRef, 1, Len(bufferRef) - 1) \o <<LF>>, bufferRef')]_vars

\* C15: a container built from n samples at sample rate r has a data-chunk
\* size field of 2n, a byte-rate field of 2r, a block-align field of 2, a
\* RIFF chunk-size field of 36 + 2n and a total length of 44 + 2n bytes.
C15_HeaderFields ==
  ret.op = "createWavBlob" =>
    LET n == Len(ret.pcmData)
        r == ret.sampleRate
    IN  /\ ret.blob.dataSize = 2 * n
        /\ ret.blob.byteRate = 2 * r
        /\ ret.blob.blockAlign = 2
        /\ ret.blob.chunkSize = 36 + 2 * n
        /\ ret.blob.byteLength = 44 + 2 * n

C15_Witness ==
  /\ ret.op = "createWavBlob"
  /\ Len(ret.pcmData) = 2
  /\ ret.sampleRate = 44100
  /\ ret.blob.byteRate = 88200
  /\ ret.blob.byteLength = 48

\* C16: for every sample k/32768 with k in -32768..32768, the 16-bit value
\* createBlob produces for it, read back as a signed integer, is within one
\* quantization step of the sample.
C16_RoundTrip ==
  ret.op = "createBlob" =>
    \A i \in 1..Len(ret.data) :
      /\ ret.int16[i] - ret.data[i] <= 1
      /\ ret.data[i] - ret.int16[i] <= 1

\* the session of call k is Active: it is the controller's current session,
\* its channel is open, it is not paused, and no other processor is running
Active(k) ==
  /\ ActiveOrPaused
  /\ ~isPaused
  /\ sessionPromiseRef = k
  /\ scriptProcessorNodeRef = k
  /\ chan[k] = "open"
  /\ \A j \in Sessions \ {k} : node[j] # "connected"

\* C17: while the session is Active, every captured frame is appended to the
\* archive and its encoding is appended to what was sent on the channel, once
\* and in capture order.
C17_ActiveFramesSentOnce ==
  [][\A k \in Sessions :
       (Active(k) /\ nFrames' = nFrames + 1) =>
         (/\ capturedAudioChunksRef' =
               Append(capturedAudioChunksRef, FrameData(nFrames'))
          /\ sent'[k] = Append(sent[k], createBlob(FrameData(nFrames'))))]_vars

\* C18: a frame is handed to a channel only in the step that captures it and
\* only if that channel is open then: a frame captured while its channel was
\* connecting or closed is never sent later, and the opening of a channel
\* sends nothing.
C18_DroppedNotQueued ==
  [][\A k \in Sessions :
       sent'[k] # sent[k] =>
         (/\ chan[k] = "open"
          /\ nFrames' = nFrames + 1
          /\ sent'[k] = Append(sent[k], createBlob(FrameData(nFrames'))))]_vars

\* the session has ended: cleanUpSession has run and no start is in progress
Ended ==
  /\ ~isSessionActive
  /\ sessionPromiseRef = NULL
  /\ streamRef = NULL
  /\ ~AwaitingMedia

\* C19: a message that arrives after the session has ended (by channel
\* termination or by stop()) leaves the buffer and the last-arrival time
\* unchanged and delivers no transcript update.
C19_NoUpdateAfterEnd ==
  [][(Ended /\ received'.arrived) =>
       (/\ bufferRef' = bufferRef
        /\ lastMessageTimeRef' = lastMessageTimeRef
        /\ ~delivered'.called)]_vars

\* C20: a channel message that carries no text leaves the last-arrival time
\* unchanged, so the gap of the next fragment is measured from the previous
\* fragment.
C20_TextlessKeepsArrivalTime ==
  [][(received'.arrived /\ received'.text = <<>>) =>
       lastMessageTimeRef' = lastMessageTimeRef]_vars

\* C21: a start() call that is accepted leaves the transcript buffer empty,
\* the archive empty, the last-arrival time unset and the paused flag
\* cleared, and notifies the caller with an empty line list, whatever an
\* earlier session left behind.
C21_FreshSession ==
  [][(ret'.op = "start" /\ ret'.accepted) =>
       (/\ bufferRef' = <<>>
        /\ capturedAudioChunksRef' = <<>>
        /\ lastMessageTimeRef' = NULL
        /\ ~isPaused'
        /\ delivered' = [called |-> TRUE, lines |-> <<>>])]_vars

\* the second start, accepted after the first session captured frames and
\* was torn down
C21_Witness ==
  /\ ret.op = "start"
  /\ ret.accepted
  /\ call[1] = "done"
  /\ tracks[1] = "stopped"
  /\ node[1] = "disconnected"
  /\ closeReq[1] = 1
  /\ call[2] = "awaitMedia"
  /\ nFrames > 0
  /\ bufferRef = <<>>
  /\ capturedAudioChunksRef = <<>>
  /\ delivered.called

\* C22: at most one audio input stream is held, at most one channel is
\* connecting or open, and a channel that is connecting or open is the one
\* the controller's cleanup will close.
C22_OneSessionLive ==
  /\ Cardinality({k \in Sessions : tracks[k] = "live"}) <= 1
  /\ Cardinality({k \in Sessions : chan[k] \in {"connecting", "open"}}) <= 1
  /\ \A k \in Sessions : chan[k] \in {"connecting", "open"} => sessionPromiseRef = k

\* C23: a frame delivered by the audio source before the session became
\* Active (no channel has opened yet) is not added to the archive.
C23_NoArchiveWhileConnecting ==
  [][(/\ nFrames' = nFrames + 1
      /\ ~isSessionActive
      /\ \A k \in Sessions : chan[k] \in {"none", "connecting"}) =>
       capturedAudioChunksRef' = capturedAudioChunksRef]_vars

\* C24: for every sample in [-1, 1] the 16-bit value written into the
\* container payload equals the 16-bit value createBlob produces for the
\* same sample.
C24_SameQuantization ==
  ret.op = "createWavBlob" =>
    \A i \in 1..Len(ret.pcmData) :
      (ret.pcmData[i] >= -32768 /\ ret.pcmData[i] <= 32768) =>
        ret.blob.payload[i] = createBlob(ret.pcmData)[i]

\* C25: the stored buffer contains no . ? ! or , immediately followed by a
\* character that is not whitespace.
C25_SpaceAfterPunctuation ==
  \A i \in 1..(Len(bufferRef) - 1) :
    bufferRef[i] \in {".", "?", "!", ","} => bufferRef[i + 1] \in {" ", LF}

\* the positions that delimit the lines of buf: before its first character,
\* at each line break, and after its last character
LineBounds(buf) == {0} \cup {j \in 1..Len(buf) : buf[j] = LF} \cup {Len(buf) + 1}

NthBound(buf, i) ==
  CHOOSE a \in LineBounds(buf) : Cardinality({b \in LineBounds(buf) : b < a}) = i - 1

\* the i-th line of buf
LineOf(buf, i) == SubSeq(buf, NthBound(buf, i) + 1, NthBound(buf, i + 1) - 1)

\* C26: the line list delivered after a fragment is the stored buffer split
\* at its line breaks, in order, each non-empty line with its first character
\* upper-cased and its other characters unchanged; the stored buffer is the
\* reconciled text itself, without that capitalization.
C26_DeliveredLines ==
  [][(received'.arrived /\ received'.text # <<>>) =>
       (/\ delivered'.called
        /\ Len(delivered'.lines) = Cardinality(LineBounds(bufferRef')) - 1
        /\ \A i \in 1..Len(delivered'.lines) :
             LET line == LineOf(bufferRef', i)
                 out == delivered'.lines[i]
             IN  /\ Len(out) = Len(line)
                 /\ \A j \in 1..Len(line) :
                      out[j] = IF j = 1 THEN toUpperCase(line[1]) ELSE line[j]
        /\ bufferRef' =
             formattedText(bufferRef
                           \o Separator(bufferRef, received'.text, now' - now)
                           \o received'.text))]_vars

\* "a<LF>b" is stored as it came and delivered as the lines "A" and "B"
C26_Witness ==
  /\ received.text = <<"a", LF, "b">>
  /\ bufferRef = <<"a", LF, "b">>
  /\ delivered.called
  /\ delivered.lines = << <<"A">>, <<"B">> >>

\* session k was torn down and a later session is the controller's current
\* one
Superseded(k) ==
  /\ closeReq[k] >= 1
  /\ sessionPromiseRef # NULL
  /\ sessionPromiseRef > k

\* C27: a callback of the channel of a session that was torn down (its
\* onclose, onerror or connect-promise rejection, or a message arriving when
\* only that old channel can deliver one) leaves alone the session started
\* afterwards: its device, its channel and channel reference, the error, the
\* archive and the transcript.
C27_LateCallbacksHarmless ==
  [][\A k \in Sessions :
       (/\ Superseded(k)
        /\ \/ chan'[k] # chan[k] /\ chan'[k] \in {"closed", "errored"}
           \/ promise[k] = "pending" /\ promise'[k] = "rejected"
           \/ /\ received'.arrived
              /\ chan[k] \in {"open", "closing"}
              /\ chan[sessionPromiseRef] = "connecting") =>
         (/\ tracks'[sessionPromiseRef] = tracks[sessionPromiseRef]
          /\ chan'[sessionPromiseRef] = chan[sessionPromiseRef]
          /\ UNCHANGED <<streamRef, sessionPromiseRef, error, capturedAudioChunksRef,
                         bufferRef>>)]_vars

\* C28: stop() on an Active or Paused session returns no container if and
\* only if the archive is empty at the call; with at least one archived
\* frame it returns a container, whether or not anything was sent or any
\* text was received.
C28_NullContainerIffNoFrames ==
  [][(ret'.op = "stop" /\ ActiveOrPaused) =>
       (ret'.audioBlob = NullBlob <=> capturedAudioChunksRef = <<>>)]_vars

\* a stop that returned a container although nothing was sent and no text
\* had arrived
C28_Witness ==
  /\ ret.op = "stop"
  /\ ret.ran
  /\ ret.audioBlob # NullBlob
  /\ ret.transcript = <<>>
  /\ \A k \in Sessions : sent[k] = <<>>
  /\ now = T0

\* C29: a recorder instance holds at most one live microphone stream and one
\* MediaRecorder that is recording or paused, and they are the ones its refs
\* hold, so that the next stopRecording() or the unmount stops them.
C29_OneStreamOneRecorder ==
  /\ Cardinality({k \in Recordings : recorder.tracks[k] = "live"}) <= 1
  /\ Cardinality({k \in Recordings : recorder.state[k] \in {"recording", "paused"}}) <= 1
  /\ \A k \in Recordings :
       /\ recorder.tracks[k] = "live" => recorder.streamRef = k
       /\ recorder.state[k] \in {"recording", "paused"} => recorder.mediaRecorderRef = k

RetryEnded == retry.pc \in {"returned", "threw"}

\* C30: retryOperation invokes the operation at most `retries` times; every
\* attempt but the last one failed with a rate-limit or overload error (so a
\* success or any other error ends the call at once); a call that returned
\* returns the value of its last, successful attempt; a call that threw
\* throws the error of its last attempt, which is either not retryable or
\* the `retries`-th one; and every call ends.
C30_RetryContract ==
  /\ [](retry.calls <= retry.retries)
  /\ [](Len(retry.outcomes) <= retry.calls)
  /\ [](\A n \in DOMAIN retry.outcomes :
          n < retry.calls => ~retry.outcomes[n].ok /\ isRetryable(retry.outcomes[n].error))
  /\ [](retry.pc = "returned" =>
          /\ Len(retry.outcomes) = retry.calls
          /\ retry.outcomes[retry.calls].ok
          /\ retry.result = retry.outcomes[retry.calls].value)
  /\ [](retry.pc = "threw" /\ retry.calls > 0 =>
          /\ Len(retry.outcomes) = retry.calls
          /\ ~retry.outcomes[retry.calls].ok
          /\ retry.thrown = retry.outcomes[retry.calls].error
          /\ isRetryable(retry.thrown) => retry.calls = retry.retries)
  /\ [](retry.pc = "delay" => retry.waitTime = retry.initialDelay * Pow2(retry.i))
  /\ (retry.pc # "idle" ~> RetryEnded)

\* a call that exhausted its attempts on retryable errors and rethrew the last
C30_Witness ==
  /\ retry.pc = "threw"
  /\ retry.retries = MaxRetries
  /\ retry.calls = MaxRetries
  /\ isRetryable(retry.thrown)
  /\ retry.thrown = retry.outcomes[MaxRetries].error
  /\ retry.outcomes[1].error # retry.thrown

====
